---- MODULE Spec2Model ----
(***************************************************************************)
(* Model of taskiq's client side: AsyncKicker (kicker.py), which builds a  *)
(* TaskiqMessage, runs the broker's middlewares around broker.kick and     *)
(* returns an AsyncTaskiqTask, and AsyncTaskiqTask (task.py), which polls  *)
(* the result backend.                                                     *)
(*                                                                         *)
(* Coroutines run on one asyncio event loop: a coroutine runs alone from   *)
(* one await to the next.  `running` names the coroutine that holds the    *)
(* loop (0: none); every other coroutine, and every call made by another   *)
(* coroutine (with_labels, with_broker), waits until it is 0.              *)
(***************************************************************************)
EXTENDS Integers, Sequences, FiniteSets, TLC

\* ----------------------------------------------------------------- bounds
MaxHooks == 2        \* the longest middlewares list of a broker
MaxInterval == 2     \* the largest check_interval given to wait_result
MaxTimeout == 2      \* the largest timeout given to wait_result
MaxClock == 4        \* time() stops advancing here
MaxSleeps == 4       \* asyncio.sleep calls of one wait_result
MaxCalls == 2        \* with_labels calls that are made

\* Two kiq() calls may be in flight at once, on two kickers over two brokers.
Flows == {1, 2}
Kickers == {1, 2}
Brokers == {1, 2}
\* Label mappings (dict objects): the ones given to the kickers' constructors.
Refs == {1, 2}
Keys == {"a", "b"}
Absent == "absent"
\* The keyword arguments with_labels is called with (Absent: key not given).
LabelArgs ==
  {[x \in Keys |-> IF x = "a" THEN "1" ELSE Absent],
   [x \in Keys |-> IF x = "a" THEN "2" ELSE "3"]}
\* The values uuid4().hex can take; no value is returned twice.
TaskIds == Flows
\* The task_id the i-th middleware of a list gives a message it replaces.
ReplacedId(i) == 0 - i
\* Exceptions (instances of Exception) that formatter.dumps, broker.kick and the
\* result backend may raise.
DumpsErrors == {"ValueError"}
KickErrors == {"ConnectionRefused"}
BackendErrors == {"BackendDown"}
\* The exception a middleware may raise.
HookErrors == {"HookError"}

\* wait_result calls that may be in flight at once, on one task.
Waiters == {1, 2}
CheckIntervals == 0..MaxInterval
Timeouts == -1..MaxTimeout

NoMsg == [task_id |-> 0, task_name |-> "", meta |-> 0]
NoErr == [type |-> "", cause |-> ""]
NoHandle == [class |-> "", task_id |-> 0, result_backend |-> 0]
NoResult == [task_id |-> 0, with_logs |-> FALSE]

VARIABLES
  kickers,   \* kickers[k]: the fields of AsyncKicker k (task_name, broker, labels)
  nmw,       \* nmw[b]: the length of broker b's middlewares list
  heap,      \* heap[r]: the contents of label mapping r
  issued,    \* the values uuid4 has returned so far
  calls,     \* the with_labels calls made so far: kicker, arguments, return value
  flows,     \* flows[f]: the frame of kiq() call f, and what it did so far
  running,   \* the kiq() call that holds the event loop, or 0
  task,      \* the AsyncTaskiqTask the wait_result calls are made on
  clock,     \* what time() returns
  ready,     \* whether the result backend holds the task's result
  readyAt,   \* the time at which it got it (-1: not yet)
  waits      \* waits[w]: the frame of wait_result call w, and what it did so far

kiqVars == <<kickers, nmw, heap, issued, calls, flows, running>>
waitVars == <<task, clock, ready, readyAt, waits>>
vars == <<kickers, nmw, heap, issued, calls, flows, running, task, clock, ready, readyAt, waits>>

\* ------------------------------------------------------------ collaborators

\* broker.result_backend: each broker has a result backend of its own.
result_backend(b) == b

\* AsyncTaskiqTask(task_id=..., result_backend=...): an object of that class with the
\* two fields __init__ sets.
AsyncTaskiqTask(task_id, backend) ==
  [class |-> "AsyncTaskiqTask", task_id |-> task_id, result_backend |-> backend]

\* The class of the tasks a result backend makes for its results: the second broker's
\* result backend has a task class of its own.
HandleClass(backend) == IF backend = 2 THEN "CustomTask" ELSE "AsyncTaskiqTask"

\* The result backend's operation that makes the task for a task_id.
MakeHandle(backend, task_id) ==
  [class |-> HandleClass(backend), task_id |-> task_id, result_backend |-> backend]

\* TaskiqMessage(task_id=..., task_name=..., meta=labels): meta is the mapping passed
\* in (a reference to it), not a copy.
TaskiqMessage(task_id, task_name, meta) ==
  [task_id |-> task_id, task_name |-> task_name, meta |-> meta]

\* (mutant) a key that is set already keeps its value.
DictUpdate_KeepOld(dst, upd) == [x \in Keys |-> IF dst[x] # Absent THEN dst[x] ELSE upd[x]]

\* dict.update: dst with every key of upd (a partial mapping; Absent: key not given)
\* overwritten.
DictUpdate(dst, upd) == [x \in Keys |-> IF upd[x] # Absent THEN upd[x] ELSE dst[x]]

\* raise SendTaskError() from exc
SendTaskError(exc) == [type |-> "SendTaskError", cause |-> exc]

\* An exception that leaves kiq as it was raised.
Unwrapped(exc) == [type |-> exc, cause |-> ""]

\* What the i-th middleware's pre_send may return for a message: the message itself
\* or a replacement.
HookResults(i, message) == {message, [message EXCEPT !.task_id = ReplacedId(i)]}

\* Whether a kiq() call at pc is running (not suspended in an await, not ended).
Holds(pc) == pc \in {"pre_loop", "post_loop"}

\* ------------------------------------------------------------------- Init

NewFrame ==
  [pc |-> "idle", kicker |-> 0, message |-> NoMsg, it |-> 0, idx |-> 0,
   \* what the call did so far
   built |-> NoMsg,        \* the message _prepare_message returned
   preBroker |-> 0,        \* the broker whose middlewares the first loop runs over
   preIn |-> <<>>,         \* per pre_send call: the middleware's index in the list
                           \* and the message it was given
   preOut |-> <<>>,        \* per pre_send call that returned: its result
   encoded |-> NoMsg,      \* the message given to formatter.dumps
   kicks |-> 0,            \* broker.kick calls made
   sentTo |-> 0,           \* the broker whose kick was called
   delivered |-> FALSE,    \* that kick returned
   failed |-> "",          \* the exception dumps or kick raised
   preFailed |-> "",       \* the exception a pre_send raised
   postFailed |-> "",      \* the exception a post_send raised
   posts |-> 0,            \* post_send calls made
   error |-> NoErr,        \* the exception kiq ended with
   handle |-> NoHandle]    \* the task kiq returned

NewWait ==
  [pc |-> "idle", check_interval |-> 0, timeout |-> 0, with_logs |-> FALSE,
   start_time |-> 0, wake |-> 0,
   \* what the call did so far
   checks |-> 0,           \* is_ready calls made
   checkFailed |-> "",     \* the exception is_result_ready raised
   lastReady |-> FALSE,    \* what the latest is_ready returned
   sleeps |-> 0,           \* asyncio.sleep calls that returned
   gets |-> 0,             \* get_result calls made
   getLogs |-> FALSE,      \* the with_logs given to get_result
   fetched |-> NoResult,   \* what get_result returned
   result |-> NoResult,    \* what wait_result returned
   raisedAt |-> -1,        \* the time() that was found to be past the timeout
   error |-> NoErr]        \* the exception wait_result ended with

\* AsyncKicker.__init__(task_name, broker, labels): the fields are the arguments; the
\* labels field is the mapping that was passed in.
AsyncKicker(task_name, broker, labels) ==
  [task_name |-> task_name, broker |-> broker, labels |-> labels]

\* broker.middlewares: broker 1 has MaxHooks middlewares, broker 2 none.
Middlewares == [b \in Brokers |-> IF b = 1 THEN MaxHooks ELSE 0]

\* Both kickers are constructed over broker 1 with the same label mapping; no kiq()
\* call was made yet.  The task of the wait_result calls is not looked at.
InitBroker ==
  /\ kickers = [k \in Kickers |-> AsyncKicker("add", 1, 1)]
  /\ nmw = Middlewares
  /\ heap = [r \in Refs |-> [x \in Keys |-> Absent]]
  /\ issued = {}
  /\ calls = <<>>
  /\ flows = [f \in Flows |-> NewFrame]
  /\ running = 0
  /\ task = AsyncTaskiqTask(1, 1)
  /\ clock = 0
  /\ ready = FALSE
  /\ readyAt = -1
  /\ waits = [w \in Waiters |-> NewWait]

\* As InitBroker, but the second kicker is constructed with the first one's label
\* mapping or with a mapping of its own.
InitLabels ==
  /\ kickers \in {[k \in Kickers |-> AsyncKicker("add", 1, IF k = 1 THEN 1 ELSE r)] :
                    r \in Refs}
  /\ nmw = Middlewares
  /\ heap = [r \in Refs |-> [x \in Keys |-> Absent]]
  /\ issued = {}
  /\ calls = <<>>
  /\ flows = [f \in Flows |-> NewFrame]
  /\ running = 0
  /\ task = AsyncTaskiqTask(1, 1)
  /\ clock = 0
  /\ ready = FALSE
  /\ readyAt = -1
  /\ waits = [w \in Waiters |-> NewWait]

\* As InitLabels, but the kickers are constructed over broker 2, which has no
\* middlewares.
InitChain ==
  /\ kickers \in {[k \in Kickers |-> AsyncKicker("add", 2, IF k = 1 THEN 1 ELSE r)] :
                    r \in Refs}
  /\ nmw = Middlewares
  /\ heap = [r \in Refs |-> [x \in Keys |-> Absent]]
  /\ issued = {}
  /\ calls = <<>>
  /\ flows = [f \in Flows |-> NewFrame]
  /\ running = 0
  /\ task = AsyncTaskiqTask(1, 1)
  /\ clock = 0
  /\ ready = FALSE
  /\ readyAt = -1
  /\ waits = [w \in Waiters |-> NewWait]

\* A task was kicked; its result may be in the result backend already.  No
\* wait_result call was made yet.
InitWait ==
  /\ kickers = [k \in Kickers |-> AsyncKicker("add", 1, 1)]
  /\ nmw = Middlewares
  /\ heap = [r \in Refs |-> [x \in Keys |-> Absent]]
  /\ issued = {}
  /\ calls = <<>>
  /\ flows = [f \in Flows |-> NewFrame]
  /\ running = 0
  /\ task = AsyncTaskiqTask(1, 1)
  /\ clock = 0
  /\ ready \in BOOLEAN
  /\ readyAt = (IF ready THEN 0 ELSE -1)
  /\ waits = [w \in Waiters |-> NewWait]

\* ------------------------------------------------------------ AsyncKicker

Self(f) == kickers[flows[f].kicker]

\* (mutant) the task_id is derived from the kicker, not drawn anew.
NewTaskId_FromKicker(k, fresh) == k

\* task_id = uuid4().hex: the fresh value is the message's task_id.
NewTaskId(k, fresh) == fresh

\* _prepare_message: a message with a new task_id, the kicker's task_name and the
\* kicker's label mapping as meta.
prepare_message(k, fresh) ==
  TaskiqMessage(NewTaskId(k, fresh), kickers[k].task_name, kickers[k].labels)

\* (mutant) the result of pre_send is dropped.
NextMessage_Dropped(message, pre_send_res) == message

\* message = pre_send_res, or message = await pre_send_res.
NextMessage(message, pre_send_res) == pre_send_res

\* (mutant) the result of post_send becomes the message, as in the first loop.
AfterPostSend_Assigned(message, post_send_res) == post_send_res

\* post_send_res is not assigned to message: the message stays what it was.
AfterPostSend(message, post_send_res) == message

\* (mutant) the exception of dumps or kick leaves kiq as it is.
OnSendException_Bare(fr, exc) == [fr EXCEPT !.pc = "raised", !.error = Unwrapped(exc)]

\* (mutant) the exception of dumps or kick is swallowed and kiq goes on to the second
\* loop.
OnSendException_Swallowed(fr, exc) ==
  [fr EXCEPT !.pc = "post_loop", !.it = kickers[fr.kicker].broker, !.idx = 1]

\* (mutant) dumps and kick are tried again after an exception.
OnSendException_Retried(fr, exc) == [fr EXCEPT !.pc = "pre_loop"]

\* except Exception as exc: raise SendTaskError() from exc
OnSendException(fr, exc) == [fr EXCEPT !.pc = "raised", !.error = SendTaskError(exc)]

\* (mutant) the exception of a middleware is wrapped like one of the kick.
OnHookException_Wrapped(fr, exc) == [fr EXCEPT !.pc = "raised", !.error = SendTaskError(exc)]

\* (mutant) the exception of a middleware is logged and the loop goes on.
OnHookException_Skipped(fr, exc) ==
  [fr EXCEPT !.pc = IF fr.pc \in {"pre_loop", "await_pre"} THEN "pre_loop" ELSE "post_loop",
             !.idx = @ + 1]

\* An exception of a middleware is not caught: kiq ends with it.
OnHookException(fr, exc) == [fr EXCEPT !.pc = "raised", !.error = Unwrapped(exc)]

\* with_labels(**labels): self.labels.update(labels); return self
with_labels(k, upd) ==
  /\ running = 0
  /\ Len(calls) < MaxCalls
  /\ heap' = [heap EXCEPT ![kickers[k].labels] = DictUpdate(@, upd)]
  /\ calls' = Append(calls, [kicker |-> k, labels |-> upd, returned |-> k])
  /\ UNCHANGED <<kickers, nmw, issued, flows, running, waitVars>>

\* with_broker(broker): self.broker = broker; return self
with_broker(k, b) ==
  /\ running = 0
  /\ kickers' = [kickers EXCEPT ![k].broker = b]
  /\ UNCHANGED <<nmw, heap, issued, calls, flows, running, waitVars>>

\* kiq, from the call to the first pre_send: the message is built and the loop over
\* self.broker.middlewares starts (its iterator keeps that broker's list).
KiqStart(f, k) ==
  /\ running = 0
  /\ flows[f].pc = "idle"
  /\ \E fresh \in TaskIds \ issued :
       LET message == prepare_message(k, fresh) IN
       /\ issued' = issued \cup {fresh}
       /\ flows' = [flows EXCEPT ![f] =
            [@ EXCEPT !.pc = "pre_loop", !.kicker = k, !.message = message,
                      !.built = message, !.preBroker = kickers[k].broker,
                      !.it = kickers[k].broker, !.idx = 1]]
  /\ running' = f
  /\ UNCHANGED <<kickers, nmw, heap, calls, waitVars>>

\* One pass of the first loop: middleware.pre_send(message, self.labels) raises,
\* returns the next message, or returns an awaitable that kiq awaits.
PreSend(f) ==
  /\ running = f
  /\ flows[f].pc = "pre_loop"
  /\ flows[f].idx <= nmw[flows[f].it]
  /\ LET fr == [flows[f] EXCEPT
                 !.preIn = Append(@, [hook |-> flows[f].idx, arg |-> flows[f].message])] IN
     \/ \E exc \in HookErrors :
          flows' = [flows EXCEPT ![f] = OnHookException([fr EXCEPT !.preFailed = exc], exc)]
     \/ \E res \in HookResults(fr.idx, fr.message) :
          flows' = [flows EXCEPT ![f] =
            [fr EXCEPT !.message = NextMessage(fr.message, res),
                       !.preOut = Append(@, res), !.idx = @ + 1]]
     \/ flows' = [flows EXCEPT ![f] = [fr EXCEPT !.pc = "await_pre"]]
  /\ running' = IF Holds(flows'[f].pc) THEN f ELSE 0
  /\ UNCHANGED <<kickers, nmw, heap, issued, calls, waitVars>>

\* message = await pre_send_res: the awaitable resolves or raises.
PreSendResume(f) ==
  /\ running = 0
  /\ flows[f].pc = "await_pre"
  /\ LET fr == flows[f] IN
     \/ \E exc \in HookErrors :
          flows' = [flows EXCEPT ![f] = OnHookException([fr EXCEPT !.preFailed = exc], exc)]
     \/ \E res \in HookResults(fr.idx, fr.message) :
          flows' = [flows EXCEPT ![f] =
            [fr EXCEPT !.pc = "pre_loop", !.message = NextMessage(fr.message, res),
                       !.preOut = Append(@, res), !.idx = @ + 1]]
  /\ running' = IF Holds(flows'[f].pc) THEN f ELSE 0
  /\ UNCHANGED <<kickers, nmw, heap, issued, calls, waitVars>>

\* self.broker.kick(self.broker.formatter.dumps(message, self.labels)), up to the
\* await: dumps raises, or its result is handed to the kick of the broker the kicker
\* has now.
Send(f) ==
  /\ running = f
  /\ flows[f].pc = "pre_loop"
  /\ flows[f].idx > nmw[flows[f].it]
  /\ LET fr == [flows[f] EXCEPT !.encoded = flows[f].message] IN
     \/ \E exc \in DumpsErrors :
          flows' = [flows EXCEPT ![f] = OnSendException([fr EXCEPT !.failed = exc], exc)]
     \/ flows' = [flows EXCEPT ![f] =
          [fr EXCEPT !.pc = "await_kick", !.kicks = @ + 1, !.sentTo = Self(f).broker]]
  /\ running' = IF Holds(flows'[f].pc) THEN f ELSE 0
  /\ UNCHANGED <<kickers, nmw, heap, issued, calls, waitVars>>

\* await self.broker.kick(...): the kick raises, or it returns and the second loop
\* starts over the middlewares of the broker the kicker has now.
KickResume(f) ==
  /\ running = 0
  /\ flows[f].pc = "await_kick"
  /\ LET fr == flows[f] IN
     \/ \E exc \in KickErrors :
          flows' = [flows EXCEPT ![f] = OnSendException([fr EXCEPT !.failed = exc], exc)]
     \/ flows' = [flows EXCEPT ![f] =
          [fr EXCEPT !.pc = "post_loop", !.delivered = TRUE,
                     !.it = Self(f).broker, !.idx = 1]]
  /\ running' = IF Holds(flows'[f].pc) THEN f ELSE 0
  /\ UNCHANGED <<kickers, nmw, heap, issued, calls, waitVars>>

\* One pass of the second loop: middleware.post_send(message, self.labels) raises,
\* returns (a message, maybe another one; the value is dropped), or returns an
\* awaitable that kiq awaits.
PostSend(f) ==
  /\ running = f
  /\ flows[f].pc = "post_loop"
  /\ flows[f].idx <= nmw[flows[f].it]
  /\ LET fr == [flows[f] EXCEPT !.posts = @ + 1] IN
     \/ \E exc \in HookErrors :
          flows' = [flows EXCEPT ![f] = OnHookException([fr EXCEPT !.postFailed = exc], exc)]
     \/ \E res \in HookResults(fr.idx, fr.message) :
          flows' = [flows EXCEPT ![f] =
            [fr EXCEPT !.message = AfterPostSend(fr.message, res), !.idx = @ + 1]]
     \/ flows' = [flows EXCEPT ![f] = [fr EXCEPT !.pc = "await_post"]]
  /\ running' = IF Holds(flows'[f].pc) THEN f ELSE 0
  /\ UNCHANGED <<kickers, nmw, heap, issued, calls, waitVars>>

\* await post_send_res: the awaitable resolves (the value is dropped) or raises.
PostSendResume(f) ==
  /\ running = 0
  /\ flows[f].pc = "await_post"
  /\ LET fr == flows[f] IN
     \/ \E exc \in HookErrors :
          flows' = [flows EXCEPT ![f] = OnHookException([fr EXCEPT !.postFailed = exc], exc)]
     \/ \E res \in HookResults(fr.idx, fr.message) :
          flows' = [flows EXCEPT ![f] =
            [fr EXCEPT !.pc = "post_loop", !.message = AfterPostSend(fr.message, res),
                       !.idx = @ + 1]]
  /\ running' = IF Holds(flows'[f].pc) THEN f ELSE 0
  /\ UNCHANGED <<kickers, nmw, heap, issued, calls, waitVars>>

\* return AsyncTaskiqTask(task_id=message.task_id,
\*                        result_backend=self.broker.result_backend)
Return(f) ==
  /\ running = f
  /\ flows[f].pc = "post_loop"
  /\ flows[f].idx > nmw[flows[f].it]
  /\ flows' = [flows EXCEPT ![f] =
       [@ EXCEPT !.pc = "done",
                 !.handle = AsyncTaskiqTask(flows[f].message.task_id,
                                            result_backend(Self(f).broker))]]
  /\ running' = 0
  /\ UNCHANGED <<kickers, nmw, heap, issued, calls, waitVars>>

\* -------------------------------------------------------- AsyncTaskiqTask

\* raise ResultIsReadyError() from exc
ResultIsReadyError(exc) == [type |-> "ResultIsReadyError", cause |-> exc]

\* raise ResultGetError() from exc
ResultGetError(exc) == [type |-> "ResultGetError", cause |-> exc]

\* raise TaskiqResultTimeoutError()
TaskiqResultTimeoutError == [type |-> "TaskiqResultTimeoutError", cause |-> ""]

\* result_backend.get_result(task_id, with_logs=with_logs): the task's result, with
\* the logs if they were asked for.
BackendResult(task_id, with_logs) == [task_id |-> task_id, with_logs |-> with_logs]

\* is_ready: await self.result_backend.is_result_ready(self.task_id)
CallIsReady(wt) == [wt EXCEPT !.pc = "await_ready", !.checks = @ + 1]

\* (mutant) a wait that lasted exactly `timeout` is timed out.
TimedOut_NonStrict(now, start_time, timeout) == now - start_time >= timeout

\* (mutant) the timeout is measured from time 0, not from the start of the call.
TimedOut_FromZero(now, start_time, timeout) == now > timeout

\* (mutant) the timeout is never checked.
TimedOut_Never(now, start_time, timeout) == FALSE

\* time() - start_time > timeout
TimedOut(now, start_time, timeout) == now - start_time > timeout

\* (mutant) a failed readiness check counts as "not ready" and the loop goes on.
OnIsReadyException_Retried(wt, exc, now) ==
  [wt EXCEPT !.pc = "sleeping", !.wake = now + wt.check_interval]

\* is_ready: except Exception as exc: raise ResultIsReadyError() from exc; wait_result
\* does not catch it.
OnIsReadyException(wt, exc, now) ==
  [wt EXCEPT !.pc = "raised", !.error = ResultIsReadyError(exc)]

\* (mutant) the timeout is checked before the sleep.
OnNotReady_TimeoutFirst(wt, now) ==
  IF TimedOut(now, wt.start_time, wt.timeout)
  THEN [wt EXCEPT !.pc = "raised", !.error = TaskiqResultTimeoutError]
  ELSE [wt EXCEPT !.pc = "sleeping", !.wake = now + wt.check_interval]

\* The body of the while loop, up to the await: asyncio.sleep(check_interval).
OnNotReady(wt, now) ==
  [wt EXCEPT !.pc = "sleeping", !.wake = now + wt.check_interval]

\* (mutant) get_result is called with its default, with_logs=False.
OnReady_DefaultLogs(wt) ==
  [wt EXCEPT !.pc = "await_get", !.gets = @ + 1, !.getLogs = FALSE]

\* The loop ends: self.get_result(with_logs=with_logs), up to the await of
\* result_backend.get_result.
OnReady(wt) ==
  [wt EXCEPT !.pc = "await_get", !.gets = @ + 1, !.getLogs = wt.with_logs]

\* After the sleep: if time() - start_time > timeout: raise TaskiqResultTimeoutError(),
\* else the loop condition is evaluated again.
OnWake(wt, now) ==
  LET slept == [wt EXCEPT !.sleeps = @ + 1] IN
  IF TimedOut(now, wt.start_time, wt.timeout)
  THEN [slept EXCEPT !.pc = "raised", !.error = TaskiqResultTimeoutError]
  ELSE CallIsReady(slept)

\* get_result: except Exception as exc: raise ResultGetError() from exc
OnGetException(wt, exc) == [wt EXCEPT !.pc = "raised", !.error = ResultGetError(exc)]

\* return await self.get_result(with_logs=with_logs)
OnGetResult(wt, res) == [wt EXCEPT !.pc = "done", !.result = res]

\* wait_result(check_interval, timeout, with_logs), up to the first await:
\* start_time = time(), and the loop condition calls is_ready.
WaitStart(w, check_interval, timeout, with_logs) ==
  /\ waits[w].pc = "idle"
  /\ waits' = [waits EXCEPT ![w] =
       CallIsReady([@ EXCEPT !.check_interval = check_interval, !.timeout = timeout,
                             !.with_logs = with_logs, !.start_time = clock])]
  /\ UNCHANGED <<task, clock, ready, readyAt, kiqVars>>

\* is_result_ready raises or returns whether the result is there.
IsReadyResume(w) ==
  /\ waits[w].pc = "await_ready"
  /\ \/ \E exc \in BackendErrors :
          waits' = [waits EXCEPT ![w] =
            OnIsReadyException([@ EXCEPT !.checkFailed = exc], exc, clock)]
     \/ /\ ready
        /\ waits' = [waits EXCEPT ![w] = OnReady([@ EXCEPT !.lastReady = TRUE])]
     \/ /\ ~ready
        /\ waits[w].sleeps < MaxSleeps
        /\ waits' = [waits EXCEPT ![w] = OnNotReady([@ EXCEPT !.lastReady = FALSE], clock)]
  /\ UNCHANGED <<task, clock, ready, readyAt, kiqVars>>

\* asyncio.sleep(check_interval) returns, not before check_interval has passed.
SleepResume(w) ==
  /\ waits[w].pc = "sleeping"
  /\ clock >= waits[w].wake
  /\ LET wt == OnWake(waits[w], clock) IN
     waits' = [waits EXCEPT ![w] =
       IF wt.pc = "raised" THEN [wt EXCEPT !.raisedAt = clock] ELSE wt]
  /\ UNCHANGED <<task, clock, ready, readyAt, kiqVars>>

\* result_backend.get_result raises or returns the result.
GetResume(w) ==
  /\ waits[w].pc = "await_get"
  /\ \/ \E exc \in BackendErrors :
          waits' = [waits EXCEPT ![w] = OnGetException(@, exc)]
     \/ LET res == BackendResult(task.task_id, waits[w].getLogs) IN
        waits' = [waits EXCEPT ![w] = OnGetResult([@ EXCEPT !.fetched = res], res)]
  /\ UNCHANGED <<task, clock, ready, readyAt, kiqVars>>

\* Time passes.
Tick ==
  /\ clock < MaxClock
  /\ clock' = clock + 1
  /\ UNCHANGED <<task, ready, readyAt, waits, kiqVars>>

\* A worker stores the task's result in the result backend.
WorkerDone ==
  /\ ~ready
  /\ ready' = TRUE
  /\ readyAt' = clock
  /\ UNCHANGED <<task, clock, waits, kiqVars>>

\* One step of a wait_result() call; the first waiter makes the call.
Wait ==
  \/ \E ci \in CheckIntervals, to \in Timeouts, logs \in BOOLEAN :
       WaitStart(1, ci, to, logs)
  \/ \E w \in Waiters : IsReadyResume(w)
  \/ \E w \in Waiters : SleepResume(w)
  \/ \E w \in Waiters : GetResume(w)

\* One step of a kiq() call.
Kiq ==
  \/ \E f \in Flows, k \in Kickers : KiqStart(f, k)
  \/ \E f \in Flows : PreSend(f)
  \/ \E f \in Flows : PreSendResume(f)
  \/ \E f \in Flows : Send(f)
  \/ \E f \in Flows : KickResume(f)
  \/ \E f \in Flows : PostSend(f)
  \/ \E f \in Flows : PostSendResume(f)
  \/ \E f \in Flows : Return(f)

WithLabels == \E k \in Kickers, upd \in LabelArgs : with_labels(k, upd)

WithBroker == \E k \in Kickers, b \in Brokers : with_broker(k, b)

\* Another coroutine switches the first kicker's broker (the second kicker keeps the
\* broker it was constructed with).
SwitchBroker == \E b \in Brokers : with_broker(1, b)

\* kiq() calls on either kicker while other coroutines switch the first kicker's
\* broker.
NextBroker == Kiq \/ SwitchBroker
SpecBroker == InitBroker /\ [][NextBroker]_vars

\* kiq() calls while other coroutines update the kickers' labels.
NextLabels == Kiq \/ WithLabels
SpecLabels == InitLabels /\ [][NextLabels]_vars

\* One step of a kiq() call over a broker without middlewares: the bodies of the two
\* loops are never entered.
KiqPlain ==
  \/ \E f \in Flows, k \in Kickers : KiqStart(f, k)
  \/ \E f \in Flows : Send(f)
  \/ \E f \in Flows : KickResume(f)
  \/ \E f \in Flows : Return(f)

\* Chains of with_labels calls around kiq() calls over a broker without middlewares.
NextChain == KiqPlain \/ WithLabels
SpecChain == InitChain /\ [][NextChain]_vars

\* wait_result() calls on a task whose result a worker may store at any time.
NextWait == Wait \/ Tick \/ WorkerDone
SpecWait == InitWait /\ [][NextWait]_vars

\* is_result_ready returns (it does not raise).
IsReadyReturns(w) == IsReadyResume(w) /\ waits'[w].checkFailed = ""

\* SpecWait on an event loop that keeps running: time passes, a sleep whose time has
\* come returns, and a call to the result backend that can return does return (it
\* may raise instead) or, for get_result, returns or raises.  Nothing makes a worker
\* store the result.
SpecWaitLive ==
  /\ InitWait
  /\ [][NextWait]_vars
  /\ WF_vars(Tick)
  /\ \A w \in Waiters :
       /\ WF_vars(SleepResume(w))
       /\ WF_vars(IsReadyReturns(w))
       /\ WF_vars(GetResume(w))

\* The arguments of the wait_result calls that run at the same time on one task.
SharedIntervals == {1}
SharedTimeouts == {0, 1}

\* One step of a wait_result() call; either waiter makes the call, at any time.
WaitShared ==
  \/ \E w \in Waiters, ci \in SharedIntervals, to \in SharedTimeouts, logs \in BOOLEAN :
       WaitStart(w, ci, to, logs)
  \/ \E w \in Waiters : IsReadyResume(w)
  \/ \E w \in Waiters : SleepResume(w)
  \/ \E w \in Waiters : GetResume(w)

\* Two wait_result() calls on the same task, interleaved in every way.
NextShared == WaitShared \/ Tick \/ WorkerDone
SpecShared == InitWait /\ [][NextShared]_vars

\* Everything at once.
Init == InitLabels
Next == Kiq \/ WithLabels \/ WithBroker \/ Wait \/ Tick \/ WorkerDone
Spec == Init /\ [][Next]_vars

\* ------------------------------------------------------------------ claims

\* C1: when formatter.dumps or broker.kick raises, kiq ends by raising SendTaskError
\* whose cause is that exception; nothing else leaves that step and no task is
\* returned.
C1_SendFailureWrapped ==
  \A f \in Flows :
    flows[f].failed # "" =>
      /\ flows[f].pc = "raised"
      /\ flows[f].error = [type |-> "SendTaskError", cause |-> flows[f].failed]
      /\ flows[f].handle = NoHandle

\* A kick that raised ConnectionRefused after all middlewares of broker 1 ran.
C1_Witness ==
  \E f \in Flows :
    /\ flows[f].failed = "ConnectionRefused"
    /\ flows[f].kicks = 1
    /\ Len(flows[f].preOut) = MaxHooks
    /\ flows[f].error.cause = "ConnectionRefused"

\* C2: a post_send is called only after the kick of the same kiq() call has returned;
\* when dumps or kick raised, no post_send is called.
C2_PostSendAfterDelivery ==
  \A f \in Flows :
    /\ flows[f].posts > 0 => flows[f].delivered /\ flows[f].failed = ""
    /\ flows[f].failed # "" => flows[f].posts = 0 /\ ~flows[f].delivered

\* Every post_send of broker 1 was called, after a delivery.
C2_Witness ==
  \E f \in Flows : flows[f].posts = MaxHooks /\ flows[f].delivered /\ flows[f].pc = "done"

\* C3: the pre_send calls are made one at a time in the order of the list; the first
\* is given the built message, each next one the result of the one before, and the
\* message given to dumps is the result of the last (the built message when the list
\* is empty).
C3_PreSendChain ==
  \A f \in Flows :
    LET fr == flows[f]
        n == Len(fr.preOut) IN
    /\ Len(fr.preIn) \in {n, n + 1}
    /\ \A i \in 1..Len(fr.preIn) :
         /\ fr.preIn[i].hook = i
         /\ fr.preIn[i].arg = (IF i = 1 THEN fr.built ELSE fr.preOut[i - 1])
    /\ fr.encoded # NoMsg =>
         /\ Len(fr.preIn) = n
         /\ n = nmw[fr.preBroker]
         /\ fr.encoded = (IF n = 0 THEN fr.built ELSE fr.preOut[n])

\* Both middlewares replaced the message, and the second one's replacement was encoded.
C3_Witness ==
  \E f \in Flows :
    /\ Len(flows[f].preOut) = MaxHooks
    /\ MaxHooks >= 2
    /\ flows[f].preOut[1].task_id = ReplacedId(1)
    /\ flows[f].preIn[2].arg.task_id = ReplacedId(1)
    /\ flows[f].encoded.task_id = ReplacedId(MaxHooks)
    /\ flows[f].kicks = 1

\* C8: every built message has a task_id (one of uuid4's values) that no other built
\* message has, whichever kickers the kiq() calls are made on.
C8_TaskIdsDistinct ==
  \A f \in Flows :
    flows[f].built # NoMsg =>
      /\ flows[f].built.task_id \in issued
      /\ \A g \in Flows \ {f} :
           flows[g].built # NoMsg => flows[g].built.task_id # flows[f].built.task_id

\* A kiq() call failed in the kick and another call on the same kicker built a message.
C8_Witness ==
  \E f \in Flows, g \in Flows :
    /\ f # g
    /\ flows[f].kicker = flows[g].kicker
    /\ flows[f].failed # ""
    /\ flows[g].built # NoMsg
    /\ flows[g].pc = "done"

\* C9: the task kiq returns has the task_id of the message that was encoded and
\* kicked, and the result backend of the broker whose kick was called.
C9_HandleMatchesDelivery ==
  \A f \in Flows :
    flows[f].pc = "done" =>
      /\ flows[f].handle.task_id = flows[f].encoded.task_id
      /\ flows[f].handle.result_backend = result_backend(flows[f].sentTo)

\* C10: once a message is built, no step changes the labels it carries as meta.
C10_LabelsFrozen ==
  [][\A f \in Flows :
       flows[f].built # NoMsg => heap'[flows[f].built.meta] = heap[flows[f].built.meta]]_vars

\* C4: when is_result_ready raises, wait_result ends there with ResultIsReadyError
\* whose cause is that exception: it does not sleep, check or fetch again, and does
\* not raise TaskiqResultTimeoutError.
C4_ReadyFailureAborts ==
  \A w \in Waiters :
    waits[w].checkFailed # "" =>
      /\ waits[w].pc = "raised"
      /\ waits[w].error = [type |-> "ResultIsReadyError", cause |-> waits[w].checkFailed]
      /\ waits[w].gets = 0

\* A readiness check failed after the loop had slept.
C4_Witness ==
  \E w \in Waiters :
    /\ waits[w].checkFailed # ""
    /\ waits[w].sleeps >= 1
    /\ waits[w].checks >= 2

\* C5: TaskiqResultTimeoutError is raised only after a sleep of check_interval
\* returned, whatever the timeout.
C5_TimeoutOnlyAfterSleep ==
  \A w \in Waiters :
    waits[w].error.type = "TaskiqResultTimeoutError" =>
      /\ waits[w].sleeps >= 1
      /\ clock - waits[w].start_time >= waits[w].check_interval
      /\ ~waits[w].lastReady

\* A timeout below zero and below check_interval: the error came after one sleep.
C5_Witness ==
  \E w \in Waiters :
    /\ waits[w].error.type = "TaskiqResultTimeoutError"
    /\ waits[w].timeout < 0
    /\ waits[w].check_interval > 0
    /\ waits[w].sleeps = 1

\* C6: get_result is called at most once, only after is_ready returned true, with the
\* caller's with_logs; what it returns is what wait_result returns.  When the first
\* is_ready returns true there is no sleep and no timeout.
C6_FetchOnceWhenReady ==
  \A w \in Waiters :
    LET wt == waits[w] IN
    /\ wt.gets <= 1
    /\ wt.gets = 1 => wt.lastReady /\ wt.getLogs = wt.with_logs
    /\ wt.fetched # NoResult => wt.gets = 1
    /\ wt.pc = "done" <=> wt.fetched # NoResult
    /\ wt.result = wt.fetched
    /\ wt.lastReady /\ wt.checks = 1 =>
         wt.sleeps = 0 /\ wt.error.type # "TaskiqResultTimeoutError"

\* The first check found the result: it was returned, with logs, though timeout < 0.
C6_Witness ==
  \E w \in Waiters :
    /\ waits[w].pc = "done"
    /\ waits[w].checks = 1
    /\ waits[w].sleeps = 0
    /\ waits[w].timeout < 0
    /\ waits[w].with_logs
    /\ waits[w].result = [task_id |-> task.task_id, with_logs |-> TRUE]

\* C7: wait_result raises TaskiqResultTimeoutError only if the result backend did not
\* have the result at any time up to `timeout` after the start of the wait.
C7_TimeoutOnlyIfNotReady ==
  \A w \in Waiters :
    waits[w].error.type = "TaskiqResultTimeoutError" =>
      ~(/\ readyAt >= 0
        /\ (IF readyAt > waits[w].start_time THEN readyAt - waits[w].start_time ELSE 0)
             <= waits[w].timeout)

\* The with_labels calls, by their place in `calls`, that wrote key x of mapping r.
Writes(r, x) ==
  {i \in 1..Len(calls) :
     kickers[calls[i].kicker].labels = r /\ calls[i].labels[x] # Absent}

Latest(S) == CHOOSE i \in S : \A j \in S : j <= i

\* C11: after any sequence of with_labels calls a kicker's label mapping holds, for
\* each key, the value of the latest call that wrote it (a key no call wrote is as it
\* was at construction: not there); each call returned the kicker it was made on and
\* left the kickers' task_name and broker as they were.
C11_LastWriteWins ==
  /\ \A k \in Kickers, x \in Keys :
       LET r == kickers[k].labels IN
       heap[r][x] = (IF Writes(r, x) = {} THEN Absent
                     ELSE calls[Latest(Writes(r, x))].labels[x])
  /\ \A i \in 1..Len(calls) : calls[i].returned = calls[i].kicker
  /\ \A k \in Kickers : kickers[k].task_name = "add" /\ kickers[k].broker = 2

\* with_labels(a=2, b=3) then with_labels(a=1) on the same kicker: a is overwritten, b
\* is kept, and that is the meta of a message built afterwards.
C11_Witness ==
  /\ Len(calls) = 2
  /\ calls[1].kicker = 1 /\ calls[2].kicker = 1
  /\ calls[1].labels["b"] = "3" /\ calls[2].labels["b"] = Absent
  /\ heap[kickers[1].labels]["a"] = "1"
  /\ heap[kickers[1].labels]["b"] = "3"
  /\ \E f \in Flows : flows[f].kicker = 1 /\ flows[f].built.meta = kickers[1].labels

\* C12: one kiq() call calls broker.kick at most once: exactly once when every
\* pre_send returned and dumps did not raise, never before that, and not again after
\* the kick raised.
C12_KickAtMostOnce ==
  \A f \in Flows :
    LET fr == flows[f] IN
    /\ fr.kicks <= 1
    /\ (fr.encoded # NoMsg /\ fr.failed \notin DumpsErrors) => fr.kicks = 1
    /\ fr.kicks = 1 =>
         /\ Len(fr.preOut) = nmw[fr.preBroker]
         /\ fr.preFailed = ""
         /\ fr.encoded # NoMsg
    /\ fr.failed \in KickErrors => fr.kicks = 1 /\ fr.pc = "raised"

\* One call ended with the exception of its only kick; another one, whose kick
\* returned, ran to its end.
C12_Witness ==
  \E f \in Flows, g \in Flows :
    /\ flows[f].failed \in KickErrors /\ flows[f].kicks = 1 /\ flows[f].pc = "raised"
    /\ flows[g].pc = "done" /\ flows[g].kicks = 1 /\ flows[g].posts = MaxHooks

\* C13: when a post_send raises (directly or when awaited), kiq ends with that
\* exception itself, not a SendTaskError; that post_send is the last one called and no
\* task is returned, though the kick has returned.  What the post_send calls return
\* never replaces the message: the returned task has the task_id that was kicked.
C13_PostSendFailureUnwrapped ==
  \A f \in Flows :
    LET fr == flows[f] IN
    /\ fr.postFailed # "" =>
         /\ fr.pc = "raised"
         /\ fr.error = [type |-> fr.postFailed, cause |-> ""]
         /\ fr.posts = fr.idx
         /\ fr.handle = NoHandle
         /\ fr.delivered
    /\ fr.delivered => fr.message = fr.encoded
    /\ fr.pc = "done" => fr.handle.task_id = fr.message.task_id

\* The first of broker 1's post_send calls raised after a kick that returned: the
\* second was not called.
C13_Witness ==
  \E f \in Flows :
    /\ flows[f].postFailed = "HookError"
    /\ flows[f].posts = 1
    /\ nmw[flows[f].it] = MaxHooks
    /\ MaxHooks > 1
    /\ flows[f].delivered
    /\ flows[f].error.type = "HookError"

\* C14: the task kiq returns is the one the result backend's own operation makes for
\* the message's task_id, so a result backend with a task class of its own has a task
\* of that class returned.
C14_HandleFromFactory ==
  \A f \in Flows :
    flows[f].pc = "done" =>
      flows[f].handle = MakeHandle(flows[f].handle.result_backend, flows[f].message.task_id)

\* Whether a wait_result call ended with TaskiqResultTimeoutError on a task whose
\* result the result backend never had.
TimedOutNeverReady(w) == waits[w].error.type = "TaskiqResultTimeoutError" /\ ~ready

\* Whether all the time that passed between the start of the call and the time() that
\* was past the timeout was spent in the sleeps, each exactly check_interval long.
OnlySleepsTookTime(w) ==
  waits[w].raisedAt - waits[w].start_time = waits[w].sleeps * waits[w].check_interval

\* C15, as stated: against a result backend that never has the result, the time() that
\* makes wait_result raise TaskiqResultTimeoutError is more than timeout after the
\* start; when only the sleeps took time, the number of sleeps made is the smallest
\* k = 0, 1, 2, ... with k * check_interval > timeout.
C15_SmallestSleepCount ==
  \A w \in Waiters :
    TimedOutNeverReady(w) =>
      /\ waits[w].raisedAt - waits[w].start_time > waits[w].timeout
      /\ OnlySleepsTookTime(w) =>
           /\ waits[w].sleeps * waits[w].check_interval > waits[w].timeout
           /\ \A j \in 0..MaxSleeps :
                j < waits[w].sleeps => j * waits[w].check_interval <= waits[w].timeout

\* C15, amended: as above, with the smallest k taken among k = 1, 2, ...: at least one
\* sleep is made whatever the timeout, so with timeout < 0 there is one sleep, though
\* 0 * check_interval > timeout.
C15_SmallestPositiveSleepCount ==
  \A w \in Waiters :
    TimedOutNeverReady(w) =>
      /\ waits[w].raisedAt - waits[w].start_time > waits[w].timeout
      /\ waits[w].sleeps >= 1
      /\ OnlySleepsTookTime(w) =>
           /\ waits[w].sleeps * waits[w].check_interval > waits[w].timeout
           /\ \A j \in 1..MaxSleeps :
                j < waits[w].sleeps => j * waits[w].check_interval <= waits[w].timeout

\* timeout = MaxTimeout and check_interval = 1, only the sleeps took time: the error
\* came after MaxTimeout + 1 sleeps.
C15_Witness ==
  \E w \in Waiters :
    /\ TimedOutNeverReady(w)
    /\ OnlySleepsTookTime(w)
    /\ waits[w].check_interval = 1
    /\ waits[w].timeout = MaxTimeout
    /\ waits[w].sleeps = MaxTimeout + 1

\* What a wait_result call that ended has to show for itself, by its own arguments,
\* its own start time and what the result backend answered to it.
OwnOutcome(w) ==
  LET wt == waits[w] IN
  /\ wt.pc = "done" =>
       /\ wt.lastReady
       /\ wt.result = [task_id |-> task.task_id, with_logs |-> wt.with_logs]
       /\ wt.error = NoErr
  /\ wt.pc = "raised" =>
       /\ wt.result = NoResult
       /\ wt.error.type = "TaskiqResultTimeoutError" =>
            ~wt.lastReady /\ wt.sleeps >= 1 /\ wt.raisedAt - wt.start_time > wt.timeout
       /\ wt.error.type = "ResultIsReadyError" => wt.error.cause = wt.checkFailed
       /\ wt.error.type = "ResultGetError" => wt.lastReady /\ wt.gets = 1
  /\ wt.checkFailed # "" => wt.pc = "raised" /\ wt.error.type = "ResultIsReadyError"

\* C16: wait_result calls that run at the same time on one task never change the
\* task's task_id or result_backend, never change what the result backend holds, and
\* a step of one call leaves the other call as it is; each call ends as its own
\* arguments, its own start time and the result backend's answers to it say.
C16_SharedHandle ==
  /\ [][/\ task' = task
        /\ \A w \in Waiters :
             waits'[w] # waits[w] =>
               /\ ready' = ready /\ readyAt' = readyAt
               /\ \A v \in Waiters \ {w} : waits'[v] = waits[v]]_vars
  /\ [](\A w \in Waiters : OwnOutcome(w))

\* Two calls that started at different times with different arguments both ended:
\* the one that started first timed out, the other returned the result with the logs.
C16_Witness ==
  \E v \in Waiters, w \in Waiters :
    /\ waits[v].error.type = "TaskiqResultTimeoutError"
    /\ waits[w].pc = "done" /\ waits[w].with_logs /\ ~waits[v].with_logs
    /\ waits[v].start_time < waits[w].start_time
    /\ waits[w].start_time < waits[v].raisedAt
    /\ waits[w].sleeps >= 1
    /\ waits[v].timeout # waits[w].timeout

\* The with_labels calls, by their place in `calls`, that were made on kicker k and
\* gave key x.
OwnWrites(k, x) ==
  {i \in 1..Len(calls) : calls[i].kicker = k /\ calls[i].labels[x] # Absent}

\* Label mapping r, one of those the kickers were constructed with, as its maker has it.
PassedMapping(r) == heap[r]

\* C17: a kicker's labels are what the with_labels calls made on that kicker wrote
\* (nothing, when none was made on it), whatever was done to another kicker that was
\* constructed with the same mapping; and the mappings that were passed to the
\* constructors stay as they were passed, empty.
C17_LabelsOwned ==
  /\ \A k \in Kickers, x \in Keys :
       heap[kickers[k].labels][x] =
         (IF OwnWrites(k, x) = {} THEN Absent ELSE calls[Latest(OwnWrites(k, x))].labels[x])
  /\ \A r \in Refs, x \in Keys : PassedMapping(r)[x] = Absent

Ended(w) == waits[w].pc \in {"done", "raised"}

\* The call sleeps until a time the clock of the model does not reach.
PastHorizon(w) == waits[w].pc = "sleeping" /\ waits[w].wake > MaxClock

\* A call that ended either returned a result or raised one of the three errors, not
\* both; one that ended on a task whose result never came, with no exception of the
\* result backend, raised TaskiqResultTimeoutError.
OutcomeTyped(w) ==
  LET wt == waits[w] IN
  /\ wt.pc = "done" => wt.result # NoResult /\ wt.result = wt.fetched /\ wt.error = NoErr
  /\ wt.pc = "raised" =>
       /\ wt.result = NoResult
       /\ wt.error.type \in
            {"ResultIsReadyError", "ResultGetError", "TaskiqResultTimeoutError"}
  /\ ~Ended(w) => wt.result = NoResult /\ wt.error = NoErr
  /\ (Ended(w) /\ ~ready /\ wt.checkFailed = "") =>
       wt.error.type = "TaskiqResultTimeoutError"

\* C18: with check_interval > 0 every wait_result call ends (within the time the
\* model's clock covers), by returning the fetched result or by raising
\* ResultIsReadyError, ResultGetError or TaskiqResultTimeoutError; when the result
\* never comes and the result backend does not raise, it is TaskiqResultTimeoutError.
C18_Terminates ==
  /\ [](\A w \in Waiters : OutcomeTyped(w))
  /\ \A w \in Waiters :
       (waits[w].pc # "idle" /\ waits[w].check_interval > 0)
         ~> (Ended(w) \/ PastHorizon(w))

\* A call with check_interval > 0 and the largest timeout, on a task whose result
\* never came, ended with TaskiqResultTimeoutError.
C18_Witness ==
  \E w \in Waiters :
    /\ waits[w].check_interval > 0
    /\ waits[w].timeout = MaxTimeout
    /\ waits[w].error.type = "TaskiqResultTimeoutError"
    /\ waits[w].checkFailed = ""
    /\ ~ready

\* C19: every step of one kiq() call is made on the broker the kicker had when the
\* call started: the middlewares of both loops, dumps and kick, and the result backend
\* of the returned task.
C19_OneBrokerPerCall ==
  \A f \in Flows :
    LET fr == flows[f] IN
    /\ fr.sentTo # 0 => fr.sentTo = fr.preBroker
    /\ fr.pc \in {"post_loop", "await_post"} => fr.it = fr.preBroker
    /\ fr.pc = "done" =>
         fr.handle.result_backend = result_backend(fr.preBroker) /\ fr.it = fr.preBroker

\* C20: when a pre_send raises (directly or when awaited), kiq ends with that
\* exception itself, not a SendTaskError; that pre_send is the last one called, the
\* message is not given to dumps or kick, no post_send is called and no task is
\* returned.
C20_PreSendFailureAborts ==
  \A f \in Flows :
    LET fr == flows[f] IN
    fr.preFailed # "" =>
      /\ fr.pc = "raised"
      /\ fr.error = [type |-> fr.preFailed, cause |-> ""]
      /\ Len(fr.preIn) = fr.idx
      /\ Len(fr.preOut) = fr.idx - 1
      /\ fr.encoded = NoMsg
      /\ fr.kicks = 0
      /\ fr.sentTo = 0
      /\ fr.posts = 0
      /\ fr.handle = NoHandle

\* The first of broker 1's pre_send calls raised while the other kiq() call was
\* suspended in its kick: the second pre_send was not called.
C20_Witness ==
  \E f \in Flows, g \in Flows :
    /\ flows[f].preFailed = "HookError"
    /\ Len(flows[f].preIn) = 1
    /\ nmw[flows[f].preBroker] = MaxHooks
    /\ MaxHooks > 1
    /\ flows[f].error.type = "HookError"
    /\ flows[g].pc = "await_kick"

====
